---- MODULE Spec2Model ----
(***************************************************************************)
(* A model of the generic binary heap of github.com/gammazero/heap        *)
(* (heap.go).  The heap is a slice `data` ordered by a caller-supplied    *)
(* `less` function.  Indices are the 0-based indices of the Go code; the  *)
(* slice is a TLA+ sequence, so Go's data[i] is data[i + 1] here.          *)
(***************************************************************************)
EXTENDS Integers, Sequences, FiniteSets, TLC

\* Bounds of the model: the longest heap, the largest element, and the
\* longest heap of the runs whose whole history is recorded.
MaxLen == 8
MaxVal == 1
DrainLen == 5

\* Bounds of the runs with a less function that is not a total order: the
\* longest heap and the largest element.
OrdLen == 4
OrdMax == 4

\* Bound of the runs with tagged elements: the longest heap.
TagLen == 5

\* Bound of the runs in which the backing array is followed: the longest
\* heap.
StoreLen == 6

\* Bounds of the runs with wrapping index arithmetic: the width in bits of
\* an int, and the longest slice.
IntBits == 4
WrapLen == 7

\* Bounds of the runs of two goroutines: the longest heap they start from
\* and the most free slots behind its length.
RaceLen == 3
RaceSpare == 2

\* The element type T is int; its zero value is 0, which is also a
\* legitimate element.
Vals == 0..MaxVal
zero == 0

\* Index arguments handed to At/Remove/Set/Fix: valid ones, the boundary
\* values and values further out on both sides.
Indices == (0 - 2)..(MaxLen + 1)

\* The less functions the heap is built with: a < b and a > b.
LessKinds == {"lt", "gt"}

\* Less functions that are not total orders, on the elements 2..OrdMax:
\* "div", a is a proper divisor of b, a strict partial order in which 3 is
\* comparable with neither 2 nor 4 while 2 is less than 4; and "prio", the
\* priority a / 2 of a is less than the priority b / 2 of b, a strict weak
\* order that ignores the rest a % 2 of the element (its key).
OrderKinds == {"div", "prio"}
OrdVals == 2..OrdMax

Less(lk, a, b) ==
    CASE lk = "lt" -> a < b
      [] lk = "gt" -> b < a
      [] lk = "div" -> a # b /\ b % a = 0
      [] lk = "prio" -> (a \div 2) < (b \div 2)

\* Go's integer division truncates toward zero.
GoDiv(a, b) ==
    IF a >= 0 THEN a \div b ELSE 0 - ((0 - a) \div b)

\* data[i] with a 0-based index.
Elem(d, i) == d[i + 1]

\* data[i] = x with a 0-based index.
Store(d, i, x) == [d EXCEPT ![i + 1] = x]

\* data[i], data[j] = data[j], data[i]
Swap(d, i, j) == [d EXCEPT ![i + 1] = d[j + 1], ![j + 1] = d[i + 1]]

\* data[:n]
Trunc(d, n) == SubSeq(d, 1, n)

\* The largest int, and the int that two's-complement arithmetic of IntBits
\* bits gives for the mathematical integer x.
MaxInt == 2 ^ (IntBits - 1) - 1

WrapInt(x) ==
    LET r == x % (2 ^ IntBits)
    IN  IF r > MaxInt THEN r - 2 ^ IntBits ELSE r

\* The loop of Heap.down in arithmetic of IntBits bits, without the test
\* left < 0.
RECURSIVE downLoopWrapNoTest(_, _, _)
downLoopWrapNoTest(lk, d, i) ==
    LET n    == Len(d)
        left == WrapInt(2 * i + 1)
    IN  IF left >= n
        THEN [data |-> d, i |-> i, fault |-> FALSE]
        ELSE LET right == WrapInt(left + 1)
             IN  IF left < 0 \/ (right < n /\ right < 0)
                 THEN [data |-> d, i |-> i, fault |-> TRUE]
                 ELSE LET j == IF right < n /\ Less(lk, Elem(d, right), Elem(d, left))
                               THEN right
                               ELSE left
                      IN  IF ~Less(lk, Elem(d, j), Elem(d, i))
                          THEN [data |-> d, i |-> i, fault |-> FALSE]
                          ELSE downLoopWrapNoTest(lk, Swap(d, i, j), j)

\* The loop of Heap.down in arithmetic of IntBits bits: the slice after the
\* loop, the final i, and whether the loop indexed the slice outside
\* 0..n-1 (on which the Go runtime panics).
RECURSIVE downLoopWrap(_, _, _)
downLoopWrap(lk, d, i) ==
    LET n    == Len(d)
        left == WrapInt(2 * i + 1)
    IN  IF left >= n \/ left < 0
        THEN [data |-> d, i |-> i, fault |-> FALSE]
        ELSE LET right == WrapInt(left + 1)
             IN  IF right < n /\ right < 0
                 THEN [data |-> d, i |-> i, fault |-> TRUE]
                 ELSE LET j == IF right < n /\ Less(lk, Elem(d, right), Elem(d, left))
                               THEN right
                               ELSE left
                      IN  IF ~Less(lk, Elem(d, j), Elem(d, i))
                          THEN [data |-> d, i |-> i, fault |-> FALSE]
                          ELSE downLoopWrap(lk, Swap(d, i, j), j)

\* The loop of Heap.down without the search for the smallest child: it
\* always goes to the left child.
RECURSIVE downLoopLeft(_, _, _)
downLoopLeft(lk, d, i) ==
    LET n    == Len(d)
        left == 2 * i + 1
    IN  IF left >= n \/ left < 0
        THEN [data |-> d, i |-> i, swaps |-> 0]
        ELSE LET j == left
             IN  IF ~Less(lk, Elem(d, j), Elem(d, i))
                 THEN [data |-> d, i |-> i, swaps |-> 0]
                 ELSE LET r == downLoopLeft(lk, Swap(d, i, j), j)
                      IN  [r EXCEPT !.swaps = @ + 1]

\* The loop of Heap.down with the test before the swap turned around: it
\* stops only when the parent compares less than the child.
RECURSIVE downLoopEq(_, _, _)
downLoopEq(lk, d, i) ==
    LET n    == Len(d)
        left == 2 * i + 1
    IN  IF left >= n \/ left < 0
        THEN [data |-> d, i |-> i, swaps |-> 0]
        ELSE LET right == left + 1
                 j     == IF right < n /\ Less(lk, Elem(d, right), Elem(d, left))
                          THEN right
                          ELSE left
             IN  IF Less(lk, Elem(d, i), Elem(d, j))
                 THEN [data |-> d, i |-> i, swaps |-> 0]
                 ELSE LET r == downLoopEq(lk, Swap(d, i, j), j)
                      IN  [r EXCEPT !.swaps = @ + 1]

\* The loop of Heap.down: the slice after the loop, the final i and the
\* number of swaps made.
RECURSIVE downLoop(_, _, _)
downLoop(lk, d, i) ==
    LET n    == Len(d)
        left == 2 * i + 1
    IN  IF left >= n \/ left < 0
        THEN [data |-> d, i |-> i, swaps |-> 0]
        ELSE LET right == left + 1
                 j     == IF right < n /\ Less(lk, Elem(d, right), Elem(d, left))
                          THEN right
                          ELSE left
             IN  IF ~Less(lk, Elem(d, j), Elem(d, i))
                 THEN [data |-> d, i |-> i, swaps |-> 0]
                 ELSE LET r == downLoop(lk, Swap(d, i, j), j)
                      IN  [r EXCEPT !.swaps = @ + 1]

\* Heap.down: the slice after sifting down from i, whether i moved, and the
\* number of swaps made.
down(lk, d, i) ==
    LET r == downLoop(lk, d, i)
    IN  [data |-> r.data, moved |-> r.i > i, swaps |-> r.swaps]

\* Heap.up with an `if` in place of the `for`: at most one swap.
upOnce(lk, d, i) ==
    LET parent == GoDiv(i - 1, 2)
    IN  IF i = 0 \/ ~Less(lk, Elem(d, i), Elem(d, parent))
        THEN d
        ELSE Swap(d, i, parent)

\* The loop of Heap.up: the slice after the loop and the number of swaps
\* made.
RECURSIVE upLoop(_, _, _)
upLoop(lk, d, i) ==
    LET parent == GoDiv(i - 1, 2)
    IN  IF i = 0 \/ ~Less(lk, Elem(d, i), Elem(d, parent))
        THEN [data |-> d, swaps |-> 0]
        ELSE LET r == upLoop(lk, Swap(d, i, parent), parent)
             IN  [r EXCEPT !.swaps = @ + 1]

\* Heap.up: the slice after sifting up from i.
up(lk, d, i) == upLoop(lk, d, i).data

\* h.down(i) alone, without the h.up(i) that follows a down that did not move.
downOnly(lk, d, i) == down(lk, d, i).data

\* if !h.down(i) { h.up(i) }: the slice afterwards and the number of swaps
\* made by the two sifts together.
siftAt(lk, d, i) ==
    LET r == down(lk, d, i)
    IN  IF ~r.moved
        THEN LET u == upLoop(lk, r.data, i)
             IN  [data |-> u.data, swaps |-> r.swaps + u.swaps]
        ELSE [data |-> r.data, swaps |-> r.swaps]

\* if !h.down(i) { h.up(i) }: the slice afterwards.
downElseUp(lk, d, i) == siftAt(lk, d, i).data

\* The heapify loop of NewFrom: for i := n/2 - 1; i >= 0; i-- { h.down(i) }
RECURSIVE heapifyFrom(_, _, _)
heapifyFrom(lk, d, i) ==
    IF i >= 0 THEN heapifyFrom(lk, down(lk, d, i).data, i - 1) ELSE d

\* NewFrom with the loop started one index too low (n/2 - 2).
NewFromLow(lk, elems) ==
    heapifyFrom(lk, elems, GoDiv(Len(elems), 2) - 2)

\* NewFrom(less, data...): the slice of the new heap.
NewFrom(lk, elems) ==
    heapifyFrom(lk, elems, GoDiv(Len(elems), 2) - 1)

\* The panic messages.
NoPanic == ""
PopEmpty == "heap: Pop called on empty heap"
PeekEmpty == "heap: Peek called on empty heap"
RemoveRange == "heap: Remove index out of range"
AtRange == "heap: At index out of range"
SetRange == "heap: Set index out of range"
FixRange == "heap: Fix index out of range"

\* The panic of the Go runtime on an index outside the slice.
RuntimeRange == "runtime error: index out of range"

\* The outcome of a call: the slice afterwards, the returned value (<<>>
\* when the call returns nothing or panics) and the panic message; and, for
\* the calls that say so, the number of swaps its sifts made, the content of
\* the slot of the backing array that h.data[:n] cut off the slice (<<>>
\* when none was), and whether the call appended a slot.
Outcome(d, r, p) ==
    [data |-> d, ret |-> r, panic |-> p, swaps |-> 0, cut |-> <<>>, appended |-> FALSE]

\* The outcome `out` of a call whose sifts made n swaps.
WithSwaps(out, n) == [out EXCEPT !.swaps = n]

\* The outcome `out` of a call that cut a slot holding v off the slice.
WithCut(out, v) == [out EXCEPT !.cut = <<v>>]

\* The outcome `out` of a call that appended a slot to the slice.
WithAppend(out) == [out EXCEPT !.appended = TRUE]

\* Heap.Len
HeapLen(d) == Outcome(d, <<Len(d)>>, NoPanic)

\* Heap.Push without the h.up that follows the append.
HeapPushNoUp(lk, d, x) ==
    WithAppend(Outcome(Append(d, x), <<>>, NoPanic))

\* Heap.Push that puts x in front of the elements and sifts it down.
HeapPushFront(lk, d, x) ==
    WithAppend(Outcome(down(lk, <<x>> \o d, 0).data, <<>>, NoPanic))

\* Heap.Push
HeapPush(lk, d, x) ==
    LET d1 == Append(d, x)
    IN  WithAppend(WithSwaps(Outcome(up(lk, d1, Len(d1) - 1), <<>>, NoPanic),
                             upLoop(lk, d1, Len(d1) - 1).swaps))

\* Heap.Pop as its doc comment describes it: the zero value, and no panic,
\* on an empty heap.
HeapPopZero(lk, d) ==
    IF Len(d) = 0
    THEN Outcome(d, <<zero>>, NoPanic)
    ELSE LET x  == Elem(d, 0)
             n  == Len(d) - 1
             d1 == Store(d, 0, Elem(d, n))
             d2 == Store(d1, n, zero)
             d3 == Trunc(d2, n)
         IN  WithCut(WithSwaps(Outcome(down(lk, d3, 0).data, <<x>>, NoPanic),
                               down(lk, d3, 0).swaps),
                     Elem(d2, n))

\* Heap.Pop without the final h.down(0).
HeapPopNoDown(lk, d) ==
    IF Len(d) = 0
    THEN Outcome(d, <<>>, PopEmpty)
    ELSE LET x  == Elem(d, 0)
             n  == Len(d) - 1
             d1 == Store(d, 0, Elem(d, n))
             d2 == Store(d1, n, zero)
             d3 == Trunc(d2, n)
         IN  WithCut(Outcome(d3, <<x>>, NoPanic), Elem(d2, n))

\* Heap.Pop without h.data[n] = zero.
HeapPopNoZero(lk, d) ==
    IF Len(d) = 0
    THEN Outcome(d, <<>>, PopEmpty)
    ELSE LET x  == Elem(d, 0)
             n  == Len(d) - 1
             d1 == Store(d, 0, Elem(d, n))
             d3 == Trunc(d1, n)
         IN  WithCut(WithSwaps(Outcome(down(lk, d3, 0).data, <<x>>, NoPanic),
                               down(lk, d3, 0).swaps),
                     Elem(d1, n))

\* Heap.Pop with h.down(0) called before h.data = h.data[:n].
HeapPopLateTrunc(lk, d) ==
    IF Len(d) = 0
    THEN Outcome(d, <<>>, PopEmpty)
    ELSE LET x  == Elem(d, 0)
             n  == Len(d) - 1
             d1 == Store(d, 0, Elem(d, n))
             d2 == Store(d1, n, zero)
             r  == down(lk, d2, 0)
             d3 == Trunc(r.data, n)
         IN  WithCut(WithSwaps(Outcome(d3, <<x>>, NoPanic), r.swaps),
                     Elem(r.data, n))

\* Heap.Pop that takes the root out by moving every other element one
\* position to the front.
HeapPopShift(lk, d) ==
    IF Len(d) = 0
    THEN Outcome(d, <<>>, PopEmpty)
    ELSE WithCut(Outcome(Tail(d), <<Elem(d, 0)>>, NoPanic), zero)

\* Heap.Pop
HeapPop(lk, d) ==
    IF Len(d) = 0
    THEN Outcome(d, <<>>, PopEmpty)
    ELSE LET x  == Elem(d, 0)
             n  == Len(d) - 1
             d1 == Store(d, 0, Elem(d, n))
             d2 == Store(d1, n, zero)
             d3 == Trunc(d2, n)
         IN  WithCut(WithSwaps(Outcome(down(lk, d3, 0).data, <<x>>, NoPanic),
                               down(lk, d3, 0).swaps),
                     Elem(d2, n))

\* Heap.Peek reading the last element instead of the first.
HeapPeekLast(d) ==
    IF Len(d) = 0
    THEN Outcome(d, <<>>, PeekEmpty)
    ELSE Outcome(d, <<Elem(d, Len(d) - 1)>>, NoPanic)

\* Heap.Peek
HeapPeek(d) ==
    IF Len(d) = 0
    THEN Outcome(d, <<>>, PeekEmpty)
    ELSE Outcome(d, <<Elem(d, 0)>>, NoPanic)

\* Heap.Remove reading x := h.data[i] after the last element was moved in.
HeapRemoveReadsLate(lk, d, i) ==
    LET n == Len(d) - 1
    IN  IF i < 0 \/ i > n
        THEN Outcome(d, <<>>, RemoveRange)
        ELSE IF i = 0
        THEN HeapPop(lk, d)
        ELSE IF n # i
             THEN LET d1 == Store(d, i, Elem(d, n))
                      x  == Elem(d1, i)
                      d2 == Store(d1, n, zero)
                      d3 == Trunc(d2, n)
                  IN  WithCut(WithSwaps(Outcome(downElseUp(lk, d3, i), <<x>>, NoPanic),
                                        siftAt(lk, d3, i).swaps),
                              Elem(d2, n))
             ELSE LET x  == Elem(d, i)
                      d1 == Store(d, n, zero)
                      d2 == Trunc(d1, n)
                  IN  WithCut(Outcome(d2, <<x>>, NoPanic), Elem(d1, n))

\* Heap.Remove without the truncation when i is the last index.
HeapRemoveKeepsLast(lk, d, i) ==
    LET n == Len(d) - 1
    IN  IF i < 0 \/ i > n
        THEN Outcome(d, <<>>, RemoveRange)
        ELSE IF i = 0
        THEN HeapPop(lk, d)
        ELSE LET x == Elem(d, i)
             IN  IF n # i
                 THEN LET d1 == Store(d, i, Elem(d, n))
                          d2 == Store(d1, n, zero)
                          d3 == Trunc(d2, n)
                      IN  WithCut(WithSwaps(Outcome(downElseUp(lk, d3, i), <<x>>, NoPanic),
                                            siftAt(lk, d3, i).swaps),
                                  Elem(d2, n))
                 ELSE LET d1 == Store(d, n, zero)
                      IN  Outcome(d1, <<x>>, NoPanic)

\* Heap.Remove checking the upper bound only after the last element was
\* cut off.
HeapRemoveLateCheck(lk, d, i) ==
    LET n == Len(d) - 1
    IN  IF i < 0 \/ n < 0
        THEN Outcome(d, <<>>, RemoveRange)
        ELSE IF i > n
        THEN WithCut(Outcome(Trunc(d, n), <<>>, RemoveRange), Elem(d, n))
        ELSE IF i = 0
        THEN HeapPop(lk, d)
        ELSE LET x == Elem(d, i)
             IN  IF n # i
                 THEN LET d1 == Store(d, i, Elem(d, n))
                          d2 == Store(d1, n, zero)
                          d3 == Trunc(d2, n)
                      IN  WithCut(WithSwaps(Outcome(downElseUp(lk, d3, i), <<x>>, NoPanic),
                                            siftAt(lk, d3, i).swaps),
                                  Elem(d2, n))
                 ELSE LET d1 == Store(d, n, zero)
                          d2 == Trunc(d1, n)
                      IN  WithCut(Outcome(d2, <<x>>, NoPanic), Elem(d1, n))

\* Heap.Remove doing the work of Pop itself when i is 0, and leaving out the
\* h.down(0).
HeapRemoveZeroNoDown(lk, d, i) ==
    LET n == Len(d) - 1
    IN  IF i < 0 \/ i > n
        THEN Outcome(d, <<>>, RemoveRange)
        ELSE IF i = 0
        THEN HeapPopNoDown(lk, d)
        ELSE LET x == Elem(d, i)
             IN  IF n # i
                 THEN LET d1 == Store(d, i, Elem(d, n))
                          d2 == Store(d1, n, zero)
                          d3 == Trunc(d2, n)
                      IN  WithCut(WithSwaps(Outcome(downElseUp(lk, d3, i), <<x>>, NoPanic),
                                            siftAt(lk, d3, i).swaps),
                                  Elem(d2, n))
                 ELSE LET d1 == Store(d, n, zero)
                          d2 == Trunc(d1, n)
                      IN  WithCut(Outcome(d2, <<x>>, NoPanic), Elem(d1, n))

\* Heap.Remove
HeapRemove(lk, d, i) ==
    LET n == Len(d) - 1
    IN  IF i < 0 \/ i > n
        THEN Outcome(d, <<>>, RemoveRange)
        ELSE IF i = 0
        THEN HeapPop(lk, d)
        ELSE LET x == Elem(d, i)
             IN  IF n # i
                 THEN LET d1 == Store(d, i, Elem(d, n))
                          d2 == Store(d1, n, zero)
                          d3 == Trunc(d2, n)
                      IN  WithCut(WithSwaps(Outcome(downElseUp(lk, d3, i), <<x>>, NoPanic),
                                            siftAt(lk, d3, i).swaps),
                                  Elem(d2, n))
                 ELSE LET d1 == Store(d, n, zero)
                          d2 == Trunc(d1, n)
                      IN  WithCut(Outcome(d2, <<x>>, NoPanic), Elem(d1, n))

\* Heap.At with i <= 0 in place of i < 0.
HeapAtNoZero(d, i) ==
    IF i <= 0 \/ i >= Len(d)
    THEN Outcome(d, <<>>, AtRange)
    ELSE Outcome(d, <<Elem(d, i)>>, NoPanic)

\* Heap.At
HeapAt(d, i) ==
    IF i < 0 \/ i >= Len(d)
    THEN Outcome(d, <<>>, AtRange)
    ELSE Outcome(d, <<Elem(d, i)>>, NoPanic)

\* Heap.Fix with h.up(i) alone, without the h.down(i) before it.
HeapFixUpOnly(lk, d, i) ==
    IF i < 0 \/ i >= Len(d)
    THEN Outcome(d, <<>>, FixRange)
    ELSE Outcome(up(lk, d, i), <<>>, NoPanic)

\* Heap.Fix
HeapFix(lk, d, i) ==
    IF i < 0 \/ i >= Len(d)
    THEN Outcome(d, <<>>, FixRange)
    ELSE WithSwaps(Outcome(downElseUp(lk, d, i), <<>>, NoPanic),
                   siftAt(lk, d, i).swaps)

\* Heap.Set without the h.Fix(i) that follows the assignment.
HeapSetNoFix(lk, d, i, x) ==
    IF i < 0 \/ i >= Len(d)
    THEN Outcome(d, <<>>, SetRange)
    ELSE Outcome(Store(d, i, x), <<>>, NoPanic)

\* Heap.Set
HeapSet(lk, d, i, x) ==
    IF i < 0 \/ i >= Len(d)
    THEN Outcome(d, <<>>, SetRange)
    ELSE HeapFix(lk, Store(d, i, x), i)


VARIABLES
    data,     \* Heap.data: the elements, in heap layout
    less,     \* Heap.less: which less function the heap was built with
    op,       \* the last call: its name,
    args,     \*   its arguments (for NewFrom, the elements given),
    ret,      \*   the value it returned (<<>> when none),
    panic,    \*   the message it panicked with (NoPanic when it returned),
    pre,      \*   and Heap.data as it was when the call started
    ctor,     \* the constructor the heap came from
    phase,    \* what is followed of the run: "untracked" when neither its
              \* history nor the backing array is, "storage" when the
              \* backing array is; else the history of the run:
              \* "build" while only Push has changed the heap since
              \* construction, "popping" while only Pop has since then,
              \* "removing" once a Remove took part in emptying it, "mixed"
              \* after anything else
    built,    \* history: the elements given to NewFrom, or the elements
              \* pushed since New, in the build phase
    taken,    \* history: the values returned by Pop/Remove since the build
              \* phase ended
    swaps,    \* the number of swaps the sifts of the last call made
    spare,    \* the slots of the backing array of Heap.data behind its
              \* length: spare[1] is the slot at index len(h.data); followed
              \* in the "storage" runs only, <<>> in the others
    race      \* two goroutines calling into the same heap: the arrays in
              \* memory, the slice header h.data, each goroutine's position
              \* and locals; <<>> in the runs of completed calls

vars == <<data, less, op, args, ret, panic, pre, ctor, phase, built, taken,
          swaps, spare, race>>

\* All sequences over S of length at most n.
SeqsUpTo(S, n) == UNION {[1..k -> S] : k \in 0..n}

\* New(less) or NewFrom(less, elems...) with less one of kinds and at most n
\* elements out of vals; ph is the phase the run starts in.
ConstructWith(kinds, vals, n, ph) ==
    /\ less \in kinds
    /\ \/ /\ ctor = "New"
          /\ data = <<>>
          /\ built = <<>>
          /\ args = <<>>
       \/ /\ ctor = "NewFrom"
          /\ \E elems \in SeqsUpTo(vals, n) :
                /\ data = NewFrom(less, elems)
                /\ built = (IF ph \in {"untracked", "storage"} THEN <<>> ELSE elems)
                /\ args = elems
    /\ op = ctor
    /\ ret = <<>>
    /\ panic = NoPanic
    /\ pre = <<>>
    /\ phase = ph
    /\ taken = <<>>
    /\ swaps = 0
    /\ spare = <<>>
    /\ race = <<>>

\* New(less) or NewFrom(less, elems...) with a < b or a > b and at most n
\* elements.
Construct(n, ph) == ConstructWith(LessKinds, Vals, n, ph)

Init == Construct(MaxLen, "untracked")

\* The history variables after a call `name` with outcome `out`: calls that
\* panic and the read-only calls leave the history alone.
History(name, a, out) ==
    IF phase \in {"untracked", "storage"} \/ out.panic # NoPanic
       \/ name \in {"Len", "Peek", "At"}
    THEN UNCHANGED <<phase, built, taken>>
    ELSE IF name = "Push" /\ phase = "build" /\ ctor = "New"
    THEN /\ phase' = "build"
         /\ built' = Append(built, a[1])
         /\ taken' = taken
    ELSE IF name = "Pop" /\ phase \in {"build", "popping"}
    THEN /\ phase' = "popping"
         /\ built' = built
         /\ taken' = Append(taken, out.ret[1])
    ELSE IF name \in {"Pop", "Remove"} /\ phase \in {"build", "popping", "removing"}
    THEN /\ phase' = "removing"
         /\ built' = built
         /\ taken' = Append(taken, out.ret[1])
    ELSE /\ phase' = "mixed"
         /\ built' = <<>>
         /\ taken' = <<>>

\* The capacity append gives a slice of capacity c that is full: the Go
\* runtime doubles a small slice.
NewCap(c) == IF c = 0 THEN 1 ELSE 2 * c

\* n slots holding the zero value.
Zeros(n) == [k \in 1..n |-> zero]

\* The slots behind the length after a call with outcome `out`: append takes
\* the first of them, or a fresh zeroed array when there is none; h.data[:n]
\* leaves the slot it cut off in front of them.
Backing(out) ==
    IF phase # "storage"
    THEN spare
    ELSE IF out.appended
    THEN IF spare = <<>>
         THEN Zeros(NewCap(Len(data)) - Len(data) - 1)
         ELSE Tail(spare)
    ELSE out.cut \o spare

\* A completed call (returned or panicked) of the method `name`.
Call(name, a, out) ==
    /\ data' = out.data
    /\ ret' = out.ret
    /\ panic' = out.panic
    /\ pre' = data
    /\ op' = name
    /\ args' = a
    /\ History(name, a, out)
    /\ swaps' = out.swaps
    /\ spare' = Backing(out)
    /\ UNCHANGED <<less, ctor, race>>

DoLen == Call("Len", <<>>, HeapLen(data))

\* Push of an element out of vals on a heap shorter than cap.
PushFrom(vals, cap) ==
    /\ Len(data) < cap
    /\ \E x \in vals : Call("Push", <<x>>, HeapPush(less, data, x))

\* Push on a heap shorter than cap.
PushUpTo(cap) == PushFrom(Vals, cap)

DoPush == PushUpTo(MaxLen)

DoPop == Call("Pop", <<>>, HeapPop(less, data))

DoPeek == Call("Peek", <<>>, HeapPeek(data))

DoRemove == \E i \in Indices : Call("Remove", <<i>>, HeapRemove(less, data, i))

DoAt == \E i \in Indices : Call("At", <<i>>, HeapAt(data, i))

\* Set of an element out of vals.
SetFrom(vals) ==
    \E i \in Indices, x \in vals : Call("Set", <<i, x>>, HeapSet(less, data, i, x))

DoSet == SetFrom(Vals)

DoFix == \E i \in Indices : Call("Fix", <<i>>, HeapFix(less, data, i))

Next ==
    \/ DoLen
    \/ DoPush
    \/ DoPop
    \/ DoPeek
    \/ DoRemove
    \/ DoAt
    \/ DoSet
    \/ DoFix

Spec == Init /\ [][Next]_vars

\* The runs that fill a heap and then empty it, with their history kept.
InitDrain == Construct(DrainLen, "build")

DrainPush == PushUpTo(DrainLen)

NextDrain ==
    \/ DrainPush
    \/ DoPop
    \/ DoPeek
    \/ DoRemove

SpecDrain == InitDrain /\ [][NextDrain]_vars


\* The runs in which the caller changes an element in place, without going
\* through the heap, and then calls Fix at that position (TestFix,
\* ExampleHeap_Fix).  The last call is then "Mutate" with arguments <<i, x>>.
Mutated == op = "Mutate"

\* The caller's in-place change of the element at a valid position i to x.
DoMutate ==
    \E i \in 0..(Len(data) - 1), x \in Vals :
        Call("Mutate", <<i, x>>, Outcome(Store(data, i, x), <<>>, NoPanic))

\* The Fix(i) that follows the in-place change at i.
DoFixMutated == Call("Fix", <<args[1]>>, HeapFix(less, data, args[1]))

NextFix ==
    \/ /\ ~Mutated
       /\ \/ DoPush
          \/ DoPop
          \/ DoRemove
          \/ DoSet
          \/ DoFix
          \/ DoMutate
    \/ /\ Mutated
       /\ DoFixMutated

SpecFix == Init /\ [][NextFix]_vars

\* The runs with a less function that is not a total order, from New.
InitOrders ==
    /\ ConstructWith(OrderKinds, OrdVals, OrdLen, "untracked")
    /\ ctor = "New"

OrdPush == PushFrom(OrdVals, OrdLen)

OrdSet == SetFrom(OrdVals)

NextOrders ==
    \/ OrdPush
    \/ DoPop
    \/ DoPeek
    \/ DoRemove
    \/ OrdSet

SpecOrders == InitOrders /\ [][NextOrders]_vars

\* The runs of Heap.down in arithmetic of IntBits bits, on the slices that
\* NewFrom is given (in any order) and that Heap.down leaves, from any
\* start index.  The last call is then "down" with argument <<i>>, and it
\* returns the final i.
InitWrap ==
    /\ less \in LessKinds
    /\ ctor = "NewFrom"
    /\ \E n \in 0..WrapLen :
          /\ n <= MaxInt
          /\ data \in [1..n -> Vals]
    /\ args = data
    /\ built = <<>>
    /\ op = ctor
    /\ ret = <<>>
    /\ panic = NoPanic
    /\ pre = <<>>
    /\ phase = "untracked"
    /\ taken = <<>>
    /\ swaps = 0
    /\ spare = <<>>
    /\ race = <<>>

DoDown ==
    \E i \in 0..(Len(data) - 1) :
        LET r == downLoopWrap(less, data, i)
        IN  Call("down", <<i>>,
                 Outcome(r.data, <<r.i>>, IF r.fault THEN RuntimeRange ELSE NoPanic))

NextWrap == DoDown

SpecWrap == InitWrap /\ [][NextWrap]_vars

\* The runs in which the backing array of h.data is followed.  The slice
\* given to NewFrom has no slot behind its length.
InitStore == Construct(StoreLen, "storage")

StorePush == PushUpTo(StoreLen)

NextStore ==
    \/ StorePush
    \/ DoPop
    \/ DoPeek
    \/ DoRemove
    \/ DoSet

SpecStore == InitStore /\ [][NextStore]_vars

\* The runs in which elements carry a priority and a tag that less does not
\* look at (prioCmp), from New, with their history.
InitTagged ==
    /\ ConstructWith({"prio"}, OrdVals, TagLen, "build")
    /\ ctor = "New"

TagPush == PushFrom(OrdVals, TagLen)

NextTagged ==
    \/ TagPush
    \/ DoPop

SpecTagged == InitTagged /\ [][NextTagged]_vars

(***************************************************************************)
(* Two calls on the same heap, step by step.  The heap has no lock of its  *)
(* own; a caller that wants one wraps each call in a mutex.  A goroutine   *)
(* holds slices as headers (array, length) and all the headers that name   *)
(* one array share its slots.                                              *)
(***************************************************************************)

Threads == {1, 2}

\* The elements the slice header h names in the memory m.
View(h, m) == SubSeq(m[h.arr], 1, h.len)

\* A goroutine that is about to call the method `name` (with x, for Push).
Goroutine(name, x) ==
    [op |-> name, x |-> x, pc |-> "start", s |-> [arr |-> 0, len |-> 0],
     i |-> 0, n |-> 0, ret |-> <<>>, panic |-> NoPanic]

\* What one step of a goroutine `me` leaves: the memory, h.data, its locals.
Stepped(m, h, me) == [mem |-> m, hdr |-> h, me |-> me]

\* Push, append(h.data, x), first half: the read of the header h.data.
pushRead(m, h, me) == Stepped(m, h, [me EXCEPT !.s = h, !.pc = "append"])

\* Push, append(h.data, x), second half, and the write-back h.data = ...:
\* x goes into the slot behind the length that was read, or, when the array
\* is full, into a grown copy of the elements that were read.
pushAppend(m, h, me) ==
    LET s == me.s
        room == s.len < Len(m[s.arr])
        m1 == IF room
              THEN [m EXCEPT ![s.arr][s.len + 1] = me.x]
              ELSE Append(m, View(s, m) \o <<me.x>>
                             \o Zeros(NewCap(s.len) - s.len - 1))
        h1 == [arr |-> IF room THEN s.arr ELSE Len(m) + 1, len |-> s.len + 1]
    IN  Stepped(m1, h1, [me EXCEPT !.pc = "up"])

\* Push, h.up(len(h.data) - 1) up to the loop: i and data := h.data.
upStart(m, h, me) ==
    Stepped(m, h, [me EXCEPT !.i = h.len - 1, !.s = h, !.pc = "upLoop"])

\* One pass of the loop of up, which stops after its first swap.
upStepOnce(lk, m, h, me) ==
    LET d == m[me.s.arr]
        i == me.i
        parent == GoDiv(i - 1, 2)
    IN  IF i < 0 \/ i >= me.s.len
        THEN Stepped(m, h, [me EXCEPT !.panic = RuntimeRange, !.pc = "done"])
        ELSE IF i = 0 \/ ~Less(lk, Elem(d, i), Elem(d, parent))
        THEN Stepped(m, h, [me EXCEPT !.pc = "done"])
        ELSE Stepped([m EXCEPT ![me.s.arr] = Swap(d, i, parent)], h,
                     [me EXCEPT !.i = parent, !.pc = "done"])

\* One pass of the loop of up: the compare of data[i] with its parent and
\* the swap, or the break.  data[i] with i out of range is a run-time panic.
upStep(lk, m, h, me) ==
    LET d == m[me.s.arr]
        i == me.i
        parent == GoDiv(i - 1, 2)
    IN  IF i < 0 \/ i >= me.s.len
        THEN Stepped(m, h, [me EXCEPT !.panic = RuntimeRange, !.pc = "done"])
        ELSE IF i = 0 \/ ~Less(lk, Elem(d, i), Elem(d, parent))
        THEN Stepped(m, h, [me EXCEPT !.pc = "done"])
        ELSE Stepped([m EXCEPT ![me.s.arr] = Swap(d, i, parent)], h,
                     [me EXCEPT !.i = parent])

\* Pop up to n := len(h.data) - 1: the panic on the empty heap, or the read
\* of the root and of the length.
popRead(m, h, me) ==
    IF h.len = 0
    THEN Stepped(m, h, [me EXCEPT !.panic = PopEmpty, !.pc = "done"])
    ELSE Stepped(m, h, [me EXCEPT !.ret = <<Elem(m[h.arr], 0)>>,
                                  !.n = h.len - 1, !.pc = "cut"])

\* Pop, h.data[0] = h.data[n]; h.data[n] = zero; h.data = h.data[:n], on
\* the h.data of now and with the n that was read.
popCut(m, h, me) ==
    LET n == me.n
        d == m[h.arr]
    IN  IF n >= h.len
        THEN Stepped(m, h, [me EXCEPT !.panic = RuntimeRange, !.pc = "done"])
        ELSE Stepped([m EXCEPT ![h.arr] = Store(Store(d, 0, Elem(d, n)), n, zero)],
                     [arr |-> h.arr, len |-> n],
                     [me EXCEPT !.pc = "down"])

\* Pop, h.down(0) up to the loop: data := h.data and i.
downStart(m, h, me) ==
    Stepped(m, h, [me EXCEPT !.i = 0, !.s = h, !.pc = "downLoop"])

\* One pass of the loop of down: the choice of the smaller child, the
\* compare with data[i] and the swap, or the break.
downStep(lk, m, h, me) ==
    LET d == m[me.s.arr]
        n == me.s.len
        i == me.i
        left == 2 * i + 1
        right == left + 1
        j == IF right < n /\ Less(lk, Elem(d, right), Elem(d, left))
             THEN right
             ELSE left
    IN  IF left >= n \/ left < 0
        THEN Stepped(m, h, [me EXCEPT !.pc = "done"])
        ELSE IF ~Less(lk, Elem(d, j), Elem(d, i))
        THEN Stepped(m, h, [me EXCEPT !.pc = "done"])
        ELSE Stepped([m EXCEPT ![me.s.arr] = Swap(d, i, j)], h,
                     [me EXCEPT !.i = j])

\* Goroutine t, in the call `name` at the position `at`, takes the step
\* that leaves r.  Under the caller's mutex a goroutine steps only while no
\* other is inside a call, and it is inside from its first step to its
\* return.
Take(t, name, at, r) ==
    /\ race.thr[t].op = name
    /\ race.thr[t].pc = at
    /\ race.locked => race.holder \in {0, t}
    /\ race' = [race EXCEPT !.mem = r.mem, !.hdr = r.hdr, !.thr[t] = r.me,
                            !.holder = IF race.locked /\ r.me.pc # "done"
                                       THEN t
                                       ELSE 0]
    /\ data' = View(r.hdr, r.mem)
    /\ UNCHANGED <<less, op, args, ret, panic, pre, ctor, phase, built, taken,
                   swaps, spare>>

PushRead ==
    \E t \in Threads :
        Take(t, "Push", "start", pushRead(race.mem, race.hdr, race.thr[t]))

PushAppend ==
    \E t \in Threads :
        Take(t, "Push", "append", pushAppend(race.mem, race.hdr, race.thr[t]))

UpStart ==
    \E t \in Threads :
        Take(t, "Push", "up", upStart(race.mem, race.hdr, race.thr[t]))

UpStep ==
    \E t \in Threads :
        Take(t, "Push", "upLoop", upStep(less, race.mem, race.hdr, race.thr[t]))

PopRead ==
    \E t \in Threads :
        Take(t, "Pop", "start", popRead(race.mem, race.hdr, race.thr[t]))

PopCut ==
    \E t \in Threads :
        Take(t, "Pop", "cut", popCut(race.mem, race.hdr, race.thr[t]))

DownStart ==
    \E t \in Threads :
        Take(t, "Pop", "down", downStart(race.mem, race.hdr, race.thr[t]))

DownStep ==
    \E t \in Threads :
        Take(t, "Pop", "downLoop", downStep(less, race.mem, race.hdr, race.thr[t]))

\* A heap in heap order with up to RaceSpare free slots behind its length,
\* and two goroutines about to call into it, with or without a mutex
\* around each call: a Push and a Push, or a Push and a Pop.
InitRace ==
    /\ less \in LessKinds
    /\ ctor = "NewFrom"
    /\ \E elems \in SeqsUpTo(Vals, RaceLen) :
          /\ data = NewFrom(less, elems)
          /\ args = elems
    /\ \E k \in 0..RaceSpare, mutex \in BOOLEAN, x1 \in Vals,
          second \in {Goroutine("Push", x) : x \in Vals} \cup {Goroutine("Pop", zero)} :
          race = [locked |-> mutex, holder |-> 0,
                  mem |-> <<data \o Zeros(k)>>,
                  hdr |-> [arr |-> 1, len |-> Len(data)],
                  thr |-> <<Goroutine("Push", x1), second>>]
    /\ pre = data
    /\ op = "go"
    /\ built = <<>>
    /\ ret = <<>>
    /\ panic = NoPanic
    /\ phase = "untracked"
    /\ taken = <<>>
    /\ swaps = 0
    /\ spare = <<>>

NextRace ==
    \/ PushRead
    \/ PushAppend
    \/ UpStart
    \/ UpStep
    \/ PopRead
    \/ PopCut
    \/ DownStart
    \/ DownStep

SpecRace == InitRace /\ [][NextRace]_vars

(***************************************************************************)
(* Properties.                                                             *)
(***************************************************************************)

\* The number of occurrences of v in the sequence s.
Count(s, v) == Cardinality({k \in DOMAIN s : s[k] = v})

\* s and t hold the same elements with the same multiplicities.
SameBag(s, t) == \A v \in Vals : Count(s, v) = Count(t, v)

\* No child compares less than its parent.
HeapOrdered(lk, d) ==
    \A i \in 0..(Len(d) - 1) :
        \A c \in {2 * i + 1, 2 * i + 2} :
            c < Len(d) => ~Less(lk, Elem(d, c), Elem(d, i))

\* s is non-decreasing under less.
NonDecreasing(lk, s) ==
    \A j, k \in DOMAIN s : j < k => ~Less(lk, s[k], s[j])

\* The last call was `name` and it returned (did not panic).
Returned(name) == op = name /\ panic = NoPanic

\* C1: heap-order invariant.  In every state reached from New or NewFrom by
\* completed calls, no in-range child at 2i+1 or 2i+2 compares less than its
\* parent at i.
C1_HeapOrder == HeapOrdered(less, data)

\* A Remove from the middle of a full heap after which the element moved
\* into the hole had to travel up: it ends above the hole.
C1_Witness ==
    /\ Returned("Remove")
    /\ Len(pre) = MaxLen
    /\ args[1] > 0
    /\ args[1] < Len(pre) - 1
    /\ Elem(data, args[1]) # Elem(pre, Len(pre) - 1)
    /\ Elem(data, GoDiv(args[1] - 1, 2)) = Elem(pre, Len(pre) - 1)
    /\ Elem(pre, GoDiv(args[1] - 1, 2)) # Elem(pre, Len(pre) - 1)

\* C2: a Pop that returns gives back an element no held element compares
\* less than, and removes exactly one occurrence of it: the heap afterwards
\* plus the returned value is the heap before, as a multiset.
C2_PopMinimal ==
    Returned("Pop") =>
        /\ Len(ret) = 1
        /\ \A k \in DOMAIN pre : ~Less(less, pre[k], ret[1])
        /\ SameBag(data \o ret, pre)
        /\ Len(data) = Len(pre) - 1

\* A Pop in the middle of a run (the previous heap was not in its
\* construction state) that returned while larger elements were held.
C2_Witness ==
    /\ Returned("Pop")
    /\ Len(pre) >= 4
    /\ \E k \in DOMAIN pre : Less(less, ret[1], pre[k])
    /\ \E k \in DOMAIN data : data[k] = ret[1]

\* C3: Pop ordering.  After pushes on an empty heap followed only by pops,
\* the popped values are non-decreasing under less, and once the heap is
\* empty they are a permutation of the pushed values.
C3_PopOrdering ==
    (ctor = "New" /\ phase = "popping") =>
        /\ NonDecreasing(less, taken)
        /\ data = <<>> => SameBag(taken, built)

\* A heap filled by pushes in an order that is not the popped order, and
\* popped until empty.
C3_Witness ==
    /\ ctor = "New"
    /\ phase = "popping"
    /\ data = <<>>
    /\ Len(built) >= 4
    /\ built # taken
    /\ \E j, k \in DOMAIN taken : taken[j] # taken[k]

\* C4: heapify.  NewFrom yields a heap that holds exactly the given elements
\* and is heap-ordered, for both less functions and every input, and popping
\* it until empty yields the input sorted under less.
C4_Heapify ==
    /\ op = "NewFrom" =>
          /\ SameBag(data, args)
          /\ Len(data) = Len(args)
          /\ HeapOrdered(less, data)
    /\ (ctor = "NewFrom" /\ phase = "popping" /\ data = <<>>) =>
          /\ NonDecreasing(less, taken)
          /\ SameBag(taken, built)
          /\ Len(taken) = Len(built)

\* A heap made by NewFrom with a > b from an input that was not heap-ordered,
\* popped until empty.
C4_Witness ==
    /\ ctor = "NewFrom"
    /\ less = "gt"
    /\ phase = "popping"
    /\ data = <<>>
    /\ Len(built) >= 4
    /\ ~HeapOrdered(less, built)

\* C5: a Remove that returns gives back the element that was at position i
\* and removes exactly that occurrence; so a heap emptied by removals at any
\* valid indices has given back exactly the elements it was built from.
C5_Remove ==
    /\ Returned("Remove") =>
          /\ ret = <<Elem(pre, args[1])>>
          /\ SameBag(data \o ret, pre)
          /\ Len(data) = Len(pre) - 1
    /\ (phase \in {"popping", "removing"} /\ data = <<>>) =>
          /\ SameBag(taken, built)
          /\ Len(taken) = Len(built)

\* A heap emptied by removals, the last of them a Remove, one of which took
\* an element from the middle that differed from the last element.
C5_Witness ==
    /\ phase = "removing"
    /\ data = <<>>
    /\ Returned("Remove")
    /\ Len(built) >= 4
    /\ \E j, k \in DOMAIN taken : taken[j] # taken[k]


\* What Len() returns on the slice d.
LenOf(d) == HeapLen(d).ret[1]

\* C6: a Peek that returns gives back the element at position 0, which no
\* held element compares less than and which a Pop called next returns too,
\* and leaves every position of the slice and Len() as they were.
C6_Peek ==
    Returned("Peek") =>
        /\ ret = <<Elem(pre, 0)>>
        /\ \A k \in DOMAIN pre : ~Less(less, pre[k], ret[1])
        /\ HeapPop(less, data).ret = ret
        /\ data = pre
        /\ LenOf(data) = LenOf(pre)

\* A Peek on a heap that holds different elements, the last of them not
\* the minimum.
C6_Witness ==
    /\ Returned("Peek")
    /\ Len(pre) >= 3
    /\ Less(less, ret[1], Elem(pre, Len(pre) - 1))

\* C7: length accounting.  Len() is the number of elements given to NewFrom,
\* grows by one on Push, shrinks by one on a Pop or Remove that returns, is
\* left alone by Set, Fix, Peek and At, and is never negative.
C7_Length ==
    /\ LenOf(data) >= 0
    /\ op = "NewFrom" => LenOf(data) = Len(args)
    /\ op = "New" => LenOf(data) = 0
    /\ Returned("Push") => LenOf(data) = LenOf(pre) + 1
    /\ (Returned("Pop") \/ Returned("Remove")) => LenOf(data) = LenOf(pre) - 1
    /\ op \in {"Set", "Fix", "Peek", "At"} => LenOf(data) = LenOf(pre)

\* A Remove of the last element of a full heap.
C7_Witness ==
    /\ Returned("Remove")
    /\ Len(pre) = MaxLen
    /\ args[1] = Len(pre) - 1
    /\ LenOf(data) = MaxLen - 1

\* C8: Pop and Peek on a heap of length 0 panic with their empty-heap
\* message and return nothing, on a heap that never held an element as on
\* one that was emptied.
C8_EmptyPanics ==
    /\ (op = "Pop" /\ LenOf(pre) = 0) => (panic = PopEmpty /\ ret = <<>>)
    /\ (op = "Peek" /\ LenOf(pre) = 0) => (panic = PeekEmpty /\ ret = <<>>)

\* A Pop on a heap that earlier calls had filled and emptied.
C8_Witness ==
    /\ op = "Pop"
    /\ panic = PopEmpty
    /\ Len(built) >= 2
    /\ Len(taken) = Len(built)

\* The out-of-range message of the method `name`.
RangePanic(name) ==
    CASE name = "At" -> AtRange
      [] name = "Remove" -> RemoveRange
      [] name = "Set" -> SetRange
      [] name = "Fix" -> FixRange

\* C9: At, Remove, Set and Fix panic with their out-of-range message exactly
\* when i < 0 or i >= Len(), and return otherwise.
C9_IndexRange ==
    op \in {"At", "Remove", "Set", "Fix"} =>
        IF args[1] < 0 \/ args[1] >= LenOf(pre)
        THEN panic = RangePanic(op)
        ELSE panic = NoPanic

\* A call with i = Len() on a heap that is not empty.
C9_Witness ==
    /\ op \in {"At", "Remove", "Set", "Fix"}
    /\ LenOf(pre) >= 2
    /\ args[1] = LenOf(pre)
    /\ panic = RangePanic(op)

\* C10: failure atomicity.  After a call that panicked, the slice and Len()
\* are what they were before the call.
C10_FailureAtomic ==
    panic # NoPanic => (data = pre /\ LenOf(data) = LenOf(pre))

\* A Remove that panicked on a heap that is not empty.
C10_Witness ==
    /\ op = "Remove"
    /\ panic = RemoveRange
    /\ Len(pre) >= 2
    /\ args[1] > Len(pre)


\* C11: Fix restores order after an in-place change.  On a heap that was
\* heap-ordered before the value at one valid position i was replaced by any
\* value, Fix(i) leaves a heap-ordered slice with the same elements; and
\* Set(i, x) leaves what that in-place change followed by Fix(i) leaves.
C11_FixRestores ==
    /\ Returned("Fix") =>
          /\ HeapOrdered(less, data)
          /\ SameBag(data, pre)
          /\ Len(data) = Len(pre)
    /\ Returned("Set") =>
          data = HeapFix(less, Store(pre, args[1], args[2]), args[1]).data

\* A Fix on a slice that an in-place change had left out of order, and that
\* had to move elements.
C11_Witness ==
    /\ Returned("Fix")
    /\ Len(pre) >= 4
    /\ ~HeapOrdered(less, pre)
    /\ data # pre


\* The values that repeated Pop returns until the heap is empty.
RECURSIVE Drain(_, _)
Drain(lk, d) ==
    IF Len(d) = 0
    THEN <<>>
    ELSE LET out == HeapPop(lk, d)
         IN  out.ret \o Drain(lk, out.data)

\* The slice that Remove(i) followed by Push(x) leaves of the slice d.
RemovePush(lk, d, i, x) ==
    HeapPush(lk, HeapRemove(lk, d, i).data, x).data

\* C12: Set(i, x) is equivalent, as a priority queue, to Remove(i) followed
\* by Push(x): from the same heap both leave the same length and the same
\* multiset, both are heap-ordered, and popping both until empty yields the
\* same sequence of values.
C12_SetAsRemovePush ==
    Returned("Set") =>
        LET other == RemovePush(less, pre, args[1], args[2])
        IN  /\ Len(data) = Len(other)
            /\ SameBag(data, other)
            /\ HeapOrdered(less, data)
            /\ HeapOrdered(less, other)
            /\ Drain(less, data) = Drain(less, other)

\* A Set in the middle of a heap that changed the value there and had to
\* move it.
C12_Witness ==
    /\ Returned("Set")
    /\ Len(pre) >= 4
    /\ args[1] > 0
    /\ args[1] < Len(pre) - 1
    /\ Elem(pre, args[1]) # args[2]
    /\ data # Store(pre, args[1], args[2])

C14_FixIdempotent ==
    Returned("Fix") =>
        /\ HeapOrdered(less, pre) => (swaps = 0 /\ data = pre)
        /\ HeapFix(less, data, args[1]).data = data
        /\ HeapFix(less, data, args[1]).swaps = 0

\* A first Fix that restored the order with two swaps or more, on a slice
\* that holds equal elements.
C14_Witness ==
    /\ Returned("Fix")
    /\ swaps >= 2
    /\ \E j, k \in DOMAIN data : j # k /\ data[j] = data[k]


\* The element at position 0, when there is one, is minimal: no element of
\* the slice d compares less than it.
RootMinimal(lk, d) ==
    Len(d) > 0 => \A k \in DOMAIN d : ~Less(lk, d[k], Elem(d, 0))

\* Pop and Peek returned an element that no element held before the call
\* compares less than.
ReturnedMinimal ==
    (Returned("Pop") \/ Returned("Peek")) =>
        \A k \in DOMAIN pre : ~Less(less, pre[k], ret[1])

\* C15 as stated: with a less that is a strict partial order, proper divisor
\* among them, the element at position 0 is minimal in every state reached
\* by Push, Pop, Remove and Set, and Pop and Peek return a minimal element.
C15_RootMinimalPartial ==
    /\ RootMinimal(less, data)
    /\ ReturnedMinimal

\* C15 as amended: that holds with a less that is a strict weak order (one
\* whose incomparable elements are incomparable to the same elements), such
\* as the comparison of priorities.
C15_RootMinimalWeak ==
    less = "prio" =>
        /\ RootMinimal(less, data)
        /\ ReturnedMinimal

\* A Pop under the comparison of priorities, from a full heap holding
\* elements of equal and of different priority, that left a heap whose root
\* has an element of its own priority and one of a higher priority below it.
C15_Witness ==
    /\ less = "prio"
    /\ Returned("Pop")
    /\ Len(pre) = OrdLen
    /\ \E k \in DOMAIN data : k > 1 /\ data[k] # data[1]
                                /\ ~Less(less, data[1], data[k])
    /\ \E k \in DOMAIN data : Less(less, data[1], data[k])


\* C16: Remove(0) returns what Pop returns and leaves the slice Pop leaves;
\* Remove of the last index of a heap of two elements or more returns the
\* last element and cuts it off, with no swap and the other positions as
\* they were.
C16_RemoveEnds ==
    /\ (Returned("Remove") /\ args[1] = 0) =>
          /\ ret = HeapPop(less, pre).ret
          /\ data = HeapPop(less, pre).data
    /\ (Returned("Remove") /\ Len(pre) >= 2 /\ args[1] = Len(pre) - 1) =>
          /\ ret = <<Elem(pre, Len(pre) - 1)>>
          /\ data = Trunc(pre, Len(pre) - 1)
          /\ swaps = 0

\* A Remove(0) whose moved-in element had to travel down.
C16_Witness ==
    /\ Returned("Remove")
    /\ args[1] = 0
    /\ Len(pre) >= 4
    /\ swaps >= 1


\* C17: as the doc comments of Pop and Peek say, a Pop or Peek on an empty
\* heap completes and returns the zero value (with false), it does not
\* abort.
C17_ZeroOnEmpty ==
    (op \in {"Pop", "Peek"} /\ Len(pre) = 0) =>
        /\ panic = NoPanic
        /\ ret = <<zero>>


\* The integer part of the binary logarithm of n; 0 for n <= 1.
RECURSIVE Log2Floor(_)
Log2Floor(n) == IF n <= 1 THEN 0 ELSE 1 + Log2Floor(n \div 2)

\* The swaps of a Fix at i on the slice d are those of the sift down when it
\* made any, and else those of the sift up.
DownOrUp(d, i) ==
    LET dn == down(less, d, i)
    IN  IF dn.swaps > 0
        THEN swaps = dn.swaps
        ELSE swaps = upLoop(less, d, i).swaps

\* C18: a Push, Pop, Remove, Set or Fix that returns has made at most
\* floor(log2(n)) swaps, n the length of the slice while it sifted, and none
\* when n <= 1; Set and Fix sift up only when the sift down made no swap.
C18_SwapBound ==
    /\ (op \in {"Push", "Pop", "Remove", "Set", "Fix"} /\ panic = NoPanic) =>
          /\ swaps <= Log2Floor(Len(data))
          /\ Len(data) <= 1 => swaps = 0
    /\ Returned("Fix") => DownOrUp(pre, args[1])
    /\ Returned("Set") => DownOrUp(Store(pre, args[1], args[2]), args[1])

\* A Push that carried the new element from the end of a full heap up to
\* the root.
C18_Witness ==
    /\ Returned("Push")
    /\ Len(data) = MaxLen
    /\ swaps = Log2Floor(MaxLen)
    /\ Elem(data, 0) = args[1]


\* C19: integer overflow guard.  In arithmetic of IntBits bits, on a slice
\* of any length n (n <= MaxInt) and from any start index below n, the sift
\* down indexes the slice inside 0..n-1 only and ends at such an index:
\* 2*i+1 is negative whenever it wraps, and left+1 does not wrap when
\* 0 <= left < n.
C19_WrapGuard ==
    op = "down" =>
        /\ panic = NoPanic
        /\ ret[1] \in 0..(Len(data) - 1)
        /\ Len(data) <= MaxInt
        /\ \A i \in 0..(Len(data) - 1) :
              LET left == WrapInt(2 * i + 1)
              IN  /\ left # 2 * i + 1 => left < 0
                  /\ (left >= 0 /\ left < Len(data)) => WrapInt(left + 1) = left + 1

\* A sift down that moved an element and ended where 2*i+1 wraps.
C19_Witness ==
    /\ op = "down"
    /\ panic = NoPanic
    /\ ret[1] # args[1]
    /\ WrapInt(2 * ret[1] + 1) # 2 * ret[1] + 1
    /\ data # pre


\* C20: no dangling references.  After a Pop or Remove that returns, the
\* slot of the backing array at the old last index (the first one behind
\* the length now) holds the zero value; and in a heap made by New every
\* slot behind the length holds the zero value, in every state.
C20_NoDangling ==
    /\ (Returned("Pop") \/ Returned("Remove")) =>
          /\ Len(spare) >= 1
          /\ spare[1] = zero
    /\ ctor = "New" => \A k \in DOMAIN spare : spare[k] = zero

\* A Pop on a heap made by New whose last element was not the zero value,
\* with slots behind the length before it.
C20_Witness ==
    /\ ctor = "New"
    /\ Returned("Pop")
    /\ Len(pre) >= 3
    /\ Elem(pre, Len(pre) - 1) # zero
    /\ Len(spare) >= 2

\* Both goroutines are out of their calls.
BothDone == \A t \in Threads : race.thr[t].pc = "done"

\* The elements the two calls pushed, and the values they returned.
RacePushed ==
    (IF race.thr[1].op = "Push" THEN <<race.thr[1].x>> ELSE <<>>)
    \o (IF race.thr[2].op = "Push" THEN <<race.thr[2].x>> ELSE <<>>)

RacePopped == race.thr[1].ret \o race.thr[2].ret

\* Nothing pushed is lost or duplicated and the heap is in heap order.
RaceSound ==
    /\ SameBag(data \o RacePopped, pre \o RacePushed)
    /\ Len(data) + Len(RacePopped) = Len(pre) + Len(RacePushed)
    /\ HeapOrdered(less, data)

\* The heap after the call of goroutine a and then that of goroutine b,
\* each run as a whole.
CallOf(g, d) ==
    IF g.op = "Push" THEN HeapPush(less, d, g.x) ELSE HeapPop(less, d)

Serial(a, b) == CallOf(b, CallOf(a, pre).data).data

\* C21: no internal locking.  When each of the two calls (Push and Push, or
\* Push and Pop) runs under the caller's mutex, then after both have
\* returned nothing pushed is lost or duplicated, the heap is in heap order
\* and it is the heap one of the two serial orders gives; without the
\* mutex, with the calls interleaved step by step, a state with a lost
\* element is reachable (C21_Witness).
C21_MutexSafe ==
    race.locked /\ BothDone =>
        /\ RaceSound
        /\ \A t \in Threads : race.thr[t].panic # RuntimeRange
        /\ data \in {Serial(race.thr[1], race.thr[2]),
                     Serial(race.thr[2], race.thr[1])}

\* Two Push calls of different elements without a mutex have both returned
\* and the heap has grown by one element only: one of the two is lost.
C21_Witness ==
    /\ ~race.locked
    /\ BothDone
    /\ \A t \in Threads : race.thr[t].op = "Push" /\ race.thr[t].panic = NoPanic
    /\ race.thr[1].x # race.thr[2].x
    /\ Len(pre) > 0
    /\ Len(data) = Len(pre) + 1
    /\ ~RaceSound

\* The positions from i up to the root: i, (i-1)/2, ..., 0.
RECURSIVE PathUp(_)
PathUp(i) == IF i <= 0 THEN {0} ELSE {i} \cup PathUp(GoDiv(i - 1, 2))

\* d and e hold the same element at every position of e outside `path`.
SameOff(path, d, e) ==
    \A k \in 0..(Len(e) - 1) : k \notin path => Elem(d, k) = Elem(e, k)

\* C22: frame of Push and Pop.  After Push(x) on a heap of length n every
\* position that is not on the path n, (n-1)/2, ..., 0 holds the element it
\* held before.  After Pop there is one root-to-leaf path of the shortened
\* heap such that every position off it holds the element it held before.
C22_Frame ==
    /\ Returned("Push") =>
           /\ Len(data) = Len(pre) + 1
           /\ SameOff(PathUp(Len(pre)), pre, data)
    /\ Returned("Pop") =>
           /\ Len(data) = Len(pre) - 1
           /\ \/ Len(data) = 0
              \/ \E leaf \in 0..(Len(data) - 1) :
                     /\ 2 * leaf + 1 >= Len(data)
                     /\ SameOff(PathUp(leaf), pre, data)

\* A Pop whose sift-down swapped twice and left a position two levels
\* below the root with another element than before, in a heap with
\* positions off every single path.
C22_Witness ==
    /\ Returned("Pop")
    /\ swaps >= 2
    /\ Len(data) >= 6
    /\ \E k \in 3..(Len(data) - 1) : Elem(data, k) # Elem(pre, k)

\* All the elements of s compare equal under less: none is less than another.
AllEqual(lk, s) == \A j, k \in DOMAIN s : ~Less(lk, s[j], s[k])

\* C23: not a stable priority queue.  When three or more elements that
\* compare equal under less are pushed onto an empty heap and then popped,
\* the first Pop returns the element pushed first and the second Pop
\* returns the element pushed last: it comes out before the element pushed
\* second, in the opposite order to that of their Push calls.
C23_NotStable ==
    phase = "popping" /\ Len(built) >= 3 /\ AllEqual(less, built)
    /\ Len(taken) >= 2 =>
        /\ taken[1] = built[1]
        /\ taken[2] = built[Len(built)]

\* Three elements of one priority were pushed, the second and the third
\* with different tags, and popped: the third came out before the second.
C23_Witness ==
    /\ phase = "popping"
    /\ Len(built) = 3
    /\ AllEqual(less, built)
    /\ built[2] # built[3]
    /\ data = <<>>
    /\ taken = <<built[1], built[3], built[2]>>
    /\ taken # built

====
